---- MODULE Spec2Model ----
(***************************************************************************)
(* Ljos standard library, C++ runtime: the text module (string.hpp), the   *)
(* random stream of the numeric module (math.hpp) and the file system      *)
(* module (fs.hpp), as state machines.                                     *)
(*                                                                         *)
(* A text is a sequence of one-character strings.  Positions are 0-based   *)
(* as in std::string; size_t values are kept modulo 2^SizeBits.            *)
(***************************************************************************)
EXTENDS Integers, Sequences, FiniteSets, TLC

VARIABLES call, ret, pc, result, pos, iter,
          eng, seeded, draws, outs,
          kind, data, cwd, log

vars == <<call, ret, pc, result, pos, iter, eng, seeded, draws, outs, kind, data, cwd, log>>
textVars == <<call, ret, pc, result, pos, iter>>
randVars == <<eng, seeded, draws, outs>>
fsVars == <<kind, data, cwd, log>>

(***************************************************************************)
(* Bounds of the model.                                                    *)
(***************************************************************************)
\* longest subject text
MaxLen == 3
\* longest search / delimiter / replacement text
MaxPat == 2
\* longest text handed to toInt
MaxNumLen == 3
\* slice indices range over -MaxIdx..MaxIdx (and the int extremes)
MaxIdx == 4
\* width of size_t in the model (the build has 32 or 64; TLC integers have 32)
SizeBits == 16

TextChars == {"a", "b"}
NumChars == {"4", "2", "x", "-", " "}
Digits == {"0", "1", "2", "3", "4", "5", "6", "7", "8", "9"}
WhiteSpace == {" "}

StrUpTo(A, n) == UNION {[1..k -> A] : k \in 0..n}
Texts == StrUpTo(TextChars, MaxLen)
Pats == StrUpTo(TextChars, MaxPat)
NumTexts == StrUpTo(NumChars, MaxNumLen)

INT_MAX == 2147483647
INT_MIN == -INT_MAX - 1

Min(S) == CHOOSE x \in S : \A y \in S : x <= y
Max(S) == CHOOSE x \in S : \A y \in S : x >= y

(***************************************************************************)
(* std::string and size_t                                                  *)
(***************************************************************************)
SIZE_MOD == 2 ^ SizeBits
\* conversion of an int to size_t
ToSizeT(x) == x % SIZE_MOD
\* std::string::npos is size_t(-1)
npos == SIZE_MOD - 1

\* the positions p >= start where search occurs in s
Occurrences(s, search, start) ==
  {p \in start..(Len(s) - Len(search)) : SubSeq(s, p + 1, p + Len(search)) = search}

\* s.find(search, start)
find(s, search, start) ==
  LET occ == Occurrences(s, search, start)
  IN IF occ = {} THEN npos ELSE Min(occ)

\* s.rfind(search)
rfind(s, search) ==
  LET occ == Occurrences(s, search, 0)
  IN IF occ = {} THEN npos ELSE Max(occ)

\* s.substr(p, count): throws std::out_of_range when p > size
substr(s, p, count) ==
  IF p > Len(s)
  THEN [thrown |-> TRUE, val |-> <<>>]
  ELSE [thrown |-> FALSE,
        val |-> SubSeq(s, p + 1, p + (IF count < Len(s) - p THEN count ELSE Len(s) - p))]

\* result.replace(p, n, to)
strReplace(s, p, n, to) == SubSeq(s, 1, p) \o to \o SubSeq(s, p + n + 1, Len(s))

Returned(v) == [thrown |-> FALSE, val |-> v]

(***************************************************************************)
(* string.hpp: slice                                                       *)
(***************************************************************************)
\* if (start < 0) start = std::max(0, len + start)
SliceStart(len, start) ==
  IF start < 0 THEN (IF len + start > 0 THEN len + start ELSE 0) ELSE start

\* if (start >= len || start >= end) return ""
SliceEmptyNoLenTest(len, st, en) == st >= en
SliceEmpty(len, st, en) == st >= len \/ st >= en

slice(s, start, end) ==
  LET len == Len(s)
      st == SliceStart(len, start)
      en == IF end < 0 THEN len + end ELSE end
  IN IF SliceEmpty(len, st, en)
     THEN Returned(<<>>)
     ELSE substr(s, ToSizeT(st), ToSizeT((IF en < len THEN en ELSE len) - st))

(***************************************************************************)
(* string.hpp: indexOf, lastIndexOf, contains                              *)
(***************************************************************************)
\* the return type is size_t: the int -1 is converted to it
indexOf(s, search, start) ==
  LET p == find(s, search, start)
  IN IF p = npos THEN ToSizeT(-1) ELSE p

lastIndexOf(s, search) ==
  LET p == rfind(s, search)
  IN IF p = npos THEN ToSizeT(-1) ELSE p

contains(s, search) == find(s, search, 0) /= npos

(***************************************************************************)
(* string.hpp: split, join                                                 *)
(***************************************************************************)
\* start = end + delimiter.length()
SplitNextStartByOne(end, delimiter) == end + 1
SplitNextStart(end, delimiter) == end + Len(delimiter)

\* the while loop of split and the push_back after it; start <= s.size()
\* throughout, so substr does not throw
RECURSIVE splitLoop(_, _, _, _, _)
splitLoop(s, delimiter, start, end, res) ==
  IF end = npos
  THEN Append(res, substr(s, start, npos).val)
  ELSE LET next == SplitNextStart(end, delimiter)
       IN splitLoop(s, delimiter, next, find(s, delimiter, next),
                    Append(res, substr(s, start, ToSizeT(end - start)).val))

split(s, delimiter) ==
  IF delimiter = <<>>
  THEN [k \in 1..Len(s) |-> <<s[k]>>]
  ELSE splitLoop(s, delimiter, 0, find(s, delimiter, 0), <<>>)

RECURSIVE joinLoop(_, _, _, _)
joinLoop(parts, delimiter, k, oss) ==
  IF k > Len(parts) THEN oss
  ELSE joinLoop(parts, delimiter, k + 1, oss \o delimiter \o parts[k])

join(parts, delimiter) ==
  IF parts = <<>> THEN <<>> ELSE joinLoop(parts, delimiter, 2, parts[1])

(***************************************************************************)
(* string.hpp: replace (one loop iteration per step), replaceFirst         *)
(***************************************************************************)
\* pos += to.length(), pos being the place of the occurrence just replaced
ReplaceNextPosRescan(p, to) == p
ReplaceNextPos(p, to) == p + Len(to)

replaceFirst(s, from, to) ==
  LET p == find(s, from, 0)
  IN IF p = npos THEN s ELSE strReplace(s, p, Len(from), to)

(***************************************************************************)
(* string.hpp: toInt, over std::stoi                                       *)
(***************************************************************************)
DigitVal(c) ==
  CASE c = "0" -> 0 [] c = "1" -> 1 [] c = "2" -> 2 [] c = "3" -> 3 [] c = "4" -> 4
    [] c = "5" -> 5 [] c = "6" -> 6 [] c = "7" -> 7 [] c = "8" -> 8 [] c = "9" -> 9

\* first index (1-based) at or after k that holds no white space
RECURSIVE SkipSpace(_, _)
SkipSpace(s, k) ==
  IF k <= Len(s) /\ s[k] \in WhiteSpace THEN SkipSpace(s, k + 1) ELSE k

\* number of digits from index k on
RECURSIVE DigitRun(_, _)
DigitRun(s, k) ==
  IF k <= Len(s) /\ s[k] \in Digits THEN 1 + DigitRun(s, k + 1) ELSE 0

\* value of the n digits from index k on
RECURSIVE DigitsValue(_, _, _, _)
DigitsValue(s, k, n, acc) ==
  IF n = 0 THEN acc ELSE DigitsValue(s, k + 1, n - 1, acc * 10 + DigitVal(s[k]))

\* std::stoi(s): white space, an optional sign, digits; what follows the digits
\* is ignored; std::invalid_argument without digits, std::out_of_range beyond int
stoi(s) ==
  LET k0 == SkipSpace(s, 1)
      sign == k0 <= Len(s) /\ s[k0] \in {"-", "+"}
      k1 == IF sign THEN k0 + 1 ELSE k0
      n == DigitRun(s, k1)
      mag == DigitsValue(s, k1, n, 0)
      v == IF sign /\ s[k0] = "-" THEN -mag ELSE mag
  IN IF n = 0 \/ v > INT_MAX \/ v < INT_MIN
     THEN [thrown |-> TRUE, val |-> 0]
     ELSE [thrown |-> FALSE, val |-> v]

\* try { return std::stoi(s); } catch (...) { return defaultValue; }
toInt(s, defaultValue) ==
  LET r == stoi(s)
  IN IF r.thrown THEN defaultValue ELSE r.val

(***************************************************************************)
(* The text module as a state machine: Init draws one call with its        *)
(* arguments, the actions run it.                                          *)
(***************************************************************************)
Call(fn, s, t, u, i, j) == [fn |-> fn, s |-> s, t |-> t, u |-> u, i |-> i, j |-> j]

SliceIdx == (-MaxIdx..MaxIdx) \cup {INT_MAX, INT_MIN}
Defaults == {-1, 7}

TextCalls ==
  {Call("split", s, d, <<>>, 0, 0) : s \in Texts, d \in Pats}
  \cup {Call("indexOf", s, t, <<>>, i, 0) : s \in Texts, t \in Pats, i \in {0, 1}}
  \cup {Call("lastIndexOf", s, t, <<>>, 0, 0) : s \in Texts, t \in Pats}
  \cup {Call("toInt", s, <<>>, <<>>, d, 0) : s \in NumTexts, d \in Defaults}
  \cup {Call("slice", s, <<>>, <<>>, i, j) : s \in Texts, i \in SliceIdx, j \in SliceIdx}
  \cup {Call("replace", s, f, t, 0, 0) : s \in Texts, f \in Pats, t \in Pats}
  \cup {Call("replaceFirst", s, f, t, 0, 0) : s \in Texts, f \in Pats, t \in Pats}

NoRand == /\ eng = <<>> /\ seeded = <<>> /\ draws = <<>> /\ outs = <<>>
NoFs == /\ kind = <<>> /\ data = <<>> /\ cwd = <<>> /\ log = <<>>
NoText == /\ call = <<>> /\ ret = <<>> /\ pc = "none"
          /\ result = <<>> /\ pos = 0 /\ iter = 0

TextInit ==
  /\ call \in TextCalls
  /\ ret = Returned(<<>>)
  /\ pc = "start"
  /\ result = <<>> /\ pos = 0 /\ iter = 0
  /\ NoRand /\ NoFs

\* a call that returns in one step
Finish(r) ==
  /\ ret' = r
  /\ pc' = "done"
  /\ UNCHANGED <<call, result, pos, iter, randVars, fsVars>>

DoSplit ==
  /\ pc = "start" /\ call.fn = "split"
  /\ Finish(Returned(split(call.s, call.t)))

\* join applied to the parts the split returned, with any delimiter
DoJoin ==
  /\ pc = "done" /\ call.fn = "split"
  /\ \E d \in Pats :
       /\ call' = [call EXCEPT !.fn = "join", !.u = d]
       /\ ret' = Returned(join(ret.val, d))
  /\ UNCHANGED <<pc, result, pos, iter, randVars, fsVars>>

DoIndexOf ==
  /\ pc = "start" /\ call.fn = "indexOf"
  /\ Finish(Returned(indexOf(call.s, call.t, call.i)))

DoLastIndexOf ==
  /\ pc = "start" /\ call.fn = "lastIndexOf"
  /\ Finish(Returned(lastIndexOf(call.s, call.t)))

DoToInt ==
  /\ pc = "start" /\ call.fn = "toInt"
  /\ Finish(Returned(toInt(call.s, call.i)))

DoSlice ==
  /\ pc = "start" /\ call.fn = "slice"
  /\ Finish(slice(call.s, call.i, call.j))

\* replace, up to the loop: if (from.empty()) return s; result = s; pos = 0
ReplaceEnter ==
  /\ pc = "start" /\ call.fn = "replace"
  /\ IF call.t = <<>>
     THEN /\ ret' = Returned(call.s) /\ pc' = "done"
          /\ UNCHANGED <<result, pos>>
     ELSE /\ result' = call.s /\ pos' = 0 /\ pc' = "loop"
          /\ UNCHANGED ret
  /\ UNCHANGED <<call, iter, randVars, fsVars>>

\* one evaluation of the loop condition, and the body when it holds
ReplaceIter ==
  /\ pc = "loop"
  /\ LET p == find(result, call.t, pos)
     IN IF p /= npos
        THEN /\ result' = strReplace(result, p, Len(call.t), call.u)
             /\ pos' = ReplaceNextPos(p, call.u)
             /\ iter' = iter + 1
             /\ UNCHANGED <<ret, pc>>
        ELSE /\ ret' = Returned(result) /\ pc' = "done"
             /\ UNCHANGED <<result, pos, iter>>
  /\ UNCHANGED <<call, randVars, fsVars>>

DoReplaceFirst ==
  /\ pc = "start" /\ call.fn = "replaceFirst"
  /\ Finish(Returned(replaceFirst(call.s, call.t, call.u)))

TextNext ==
  \/ DoSplit \/ DoJoin \/ DoIndexOf \/ DoLastIndexOf \/ DoToInt \/ DoSlice
  \/ ReplaceEnter \/ ReplaceIter \/ DoReplaceFirst

SpecText == TextInit /\ [][TextNext]_vars

(***************************************************************************)
(* math.hpp: the process-wide random stream.  std::mt19937 is a            *)
(* deterministic engine: one invocation maps its state to a value and a    *)
(* next state, and seed(s) sets the whole state from s.  The model keeps   *)
(* an engine of EngBits bits (a full-period congruential step) and the     *)
(* distributions' use of it.  A double in [0, 1) is kept as its numerator  *)
(* over ENG_MOD^2.                                                         *)
(***************************************************************************)
\* width of the engine's state and of the values it returns
EngBits == 3
\* draws logged after a seed call, per run
MaxDraws == 2

ENG_MOD == 2 ^ EngBits

\* one invocation of the engine: the next state, which is also the value returned
EngineStep(e) == (5 * e + 3) % ENG_MOD

\* getRandomEngine().seed(s): the new state is a function of s alone
SeedKeepsState(e, s) == (e + s) % ENG_MOD
SeedEngine(e, s) == s % ENG_MOD

\* std::generate_canonical<double, 53>: two invocations of the engine
Canonical(e) ==
  LET e1 == EngineStep(e)
      e2 == EngineStep(e1)
  IN [eng |-> e2, val |-> e1 + e2 * ENG_MOD]

\* the rejection loop of std::uniform_int_distribution (range below the engine's)
RECURSIVE IntReject(_, _, _)
IntReject(e, scaling, past) ==
  LET e1 == EngineStep(e)
  IN IF e1 >= past THEN IntReject(e1, scaling, past)
     ELSE [eng |-> e1, val |-> e1 \div scaling]

\* static uniform_real_distribution<double> dist(0.0, 1.0); dist(getRandomEngine())
random(e) == Canonical(e)

\* uniform_int_distribution<int> dist(min, max); dist(getRandomEngine())
randomInt(e, min, max) ==
  LET uerange == max - min + 1
      scaling == (ENG_MOD - 1) \div uerange
      r == IntReject(e, scaling, uerange * scaling)
  IN [eng |-> r.eng, val |-> r.val + min]

\* uniform_real_distribution<double> dist(min, max); dist(getRandomEngine())
randomFloat(e, min, max) ==
  LET c == Canonical(e)
  IN [eng |-> c.eng, val |-> c.val * (max - min) + min * ENG_MOD * ENG_MOD]

(***************************************************************************)
(* Two runs of the program, side by side.  Each has its own process-wide   *)
(* engine, initialised from std::random_device (any state).  After a seed  *)
(* call a run logs the draws it makes and the values they return.          *)
(***************************************************************************)
Runs == {1, 2}
Seeds == {1, 6}
IntRanges == {<<0, 1>>, <<1, 3>>}
FloatRanges == {<<0, 2>>}

RandInit ==
  /\ eng \in [Runs -> 0..(ENG_MOD - 1)]
  /\ seeded = [r \in Runs |-> [on |-> FALSE, v |-> 0, pre |-> FALSE]]
  /\ draws = [r \in Runs |-> <<>>]
  /\ outs = [r \in Runs |-> <<>>]
  /\ NoText /\ NoFs

\* a draw by run r: the engine moves on; after a seed call the draw is logged
Drawn(r, d, res) ==
  /\ seeded[r].on => Len(draws[r]) < MaxDraws
  /\ eng' = [eng EXCEPT ![r] = res.eng]
  /\ IF seeded[r].on
     THEN /\ draws' = [draws EXCEPT ![r] = Append(@, d)]
          /\ outs' = [outs EXCEPT ![r] = Append(@, res.val)]
          /\ UNCHANGED seeded
     ELSE /\ seeded' = [seeded EXCEPT ![r].pre = TRUE]
          /\ UNCHANGED <<draws, outs>>
  /\ UNCHANGED <<textVars, fsVars>>

DoRandom(r) == Drawn(r, <<"random">>, random(eng[r]))

DoRandomInt(r, min, max) == Drawn(r, <<"randomInt", min, max>>, randomInt(eng[r], min, max))

DoRandomFloat(r, min, max) ==
  Drawn(r, <<"randomFloat", min, max>>, randomFloat(eng[r], min, max))

DoSeed(r, s) ==
  /\ eng' = [eng EXCEPT ![r] = SeedEngine(@, s)]
  /\ seeded' = [seeded EXCEPT ![r].on = TRUE, ![r].v = s]
  /\ draws' = [draws EXCEPT ![r] = <<>>]
  /\ outs' = [outs EXCEPT ![r] = <<>>]
  /\ UNCHANGED <<textVars, fsVars>>

RandNext ==
  \E r \in Runs :
    \/ DoRandom(r)
    \/ \E m \in IntRanges : DoRandomInt(r, m[1], m[2])
    \/ \E m \in FloatRanges : DoRandomFloat(r, m[1], m[2])
    \/ \E s \in Seeds : DoSeed(r, s)

SpecRand == RandInit /\ [][RandNext]_vars

(***************************************************************************)
(* fs.hpp over the host file tree.  A path is the sequence of its names    *)
(* below the root, which is a directory.  kind[p] is "none", "file" or     *)
(* "dir"; data[p] is the content of a file.  std::filesystem follows       *)
(* libstdc++ and libc++ on POSIX; its throwing overloads are the ones      *)
(* fs.hpp calls.                                                           *)
(***************************************************************************)
\* deepest path of the tree
MaxDepth == 2

Names == {"a", "b"}
FsPaths == UNION {[1..n -> Names] : n \in 1..MaxDepth}
FsContents == {<<"x">>}

Parent(p) == SubSeq(p, 1, Len(p) - 1)
KindOf(k, p) == IF p = <<>> THEN "dir" ELSE k[p]
Below(p) == {q \in FsPaths : Len(q) > Len(p) /\ SubSeq(q, 1, Len(p)) = p}
Descendants(k, p) == {q \in Below(p) : k[q] /= "none"}
Children(k, p) == {q \in Descendants(k, p) : Len(q) = Len(p) + 1}
Ancestors(p) == {SubSeq(p, 1, n) : n \in 1..(Len(p) - 1)}

Thrown == [thrown |-> TRUE, val |-> "filesystem_error"]
Effect(k, d, r) == [kind |-> k, data |-> d, ret |-> r]

\* the open of std::ofstream(path) and of std::ofstream(path, std::ios::app)
CanOpenForWrite(k, p) == KindOf(k, Parent(p)) = "dir" /\ k[p] /= "dir"

\* std::ofstream file(path): the file is created or truncated
OpenKeepsContent(old) == old
OpenTruncated(old) == <<>>

writeFile(k, d, p, content) ==
  IF ~CanOpenForWrite(k, p) THEN Effect(k, d, Returned(FALSE))
  ELSE Effect([k EXCEPT ![p] = "file"],
              [d EXCEPT ![p] = OpenTruncated(@) \o content], Returned(TRUE))

appendFile(k, d, p, content) ==
  IF ~CanOpenForWrite(k, p) THEN Effect(k, d, Returned(FALSE))
  ELSE Effect([k EXCEPT ![p] = "file"], [d EXCEPT ![p] = @ \o content], Returned(TRUE))

Nullopt == [some |-> FALSE, val |-> <<>>]
Some(v) == [some |-> TRUE, val |-> v]

\* the results readFile can give.  Whether std::ifstream opens a directory
\* depends on the host: where it does, nothing can be read from it.
readFile(k, d, p) ==
  CASE k[p] = "file" -> {Returned(Some(d[p]))}
    [] k[p] = "none" -> {Returned(Nullopt)}
    [] k[p] = "dir" -> {Returned(Nullopt), Returned(Some(<<>>))}

\* stdfs::exists is false: -1; stdfs::file_size throws for what is no regular file
fileSize(k, d, p) ==
  CASE k[p] = "none" -> Returned(-1)
    [] k[p] = "file" -> Returned(Len(d[p]))
    [] k[p] = "dir" -> Thrown

\* stdfs::create_directory: false for an existing directory, an error for any
\* other failure of mkdir(2) (the parent is missing or is a file, p is a file)
mkdir(k, d, p) ==
  CASE k[p] = "dir" -> Effect(k, d, Returned(FALSE))
    [] k[p] = "file" -> Effect(k, d, Thrown)
    [] k[p] = "none" /\ KindOf(k, Parent(p)) /= "dir" -> Effect(k, d, Thrown)
    [] OTHER -> Effect([k EXCEPT ![p] = "dir"], d, Returned(TRUE))

\* stdfs::create_directories: true only when it created the directory
mkdirp(k, d, p) ==
  CASE k[p] = "dir" -> Effect(k, d, Returned(FALSE))
    [] k[p] = "file" -> Effect(k, d, Thrown)
    [] k[p] = "none" /\ (\E q \in Ancestors(p) : k[q] = "file") -> Effect(k, d, Thrown)
    [] OTHER -> Effect([q \in FsPaths |-> IF q = p \/ q \in Ancestors(p) THEN "dir" ELSE k[q]],
                       d, Returned(TRUE))

\* stdfs::remove: false when nothing is there, an error for a non-empty directory
remove(k, d, p) ==
  CASE k[p] = "none" -> Effect(k, d, Returned(FALSE))
    [] k[p] = "dir" /\ Children(k, p) /= {} -> Effect(k, d, Thrown)
    [] OTHER -> Effect([k EXCEPT ![p] = "none"], [d EXCEPT ![p] = <<>>], Returned(TRUE))

\* stdfs::remove_all: the number of entries removed
removeAll(k, d, p) ==
  IF k[p] = "none" THEN Effect(k, d, Returned(0))
  ELSE LET gone == {p} \cup Descendants(k, p)
       IN Effect([q \in FsPaths |-> IF q \in gone THEN "none" ELSE k[q]],
                 [q \in FsPaths |-> IF q \in gone THEN <<>> ELSE d[q]],
                 Returned(Cardinality(gone)))

\* the file names of the children, in no order
listDir(k, d, p) ==
  IF k[p] /= "dir" THEN Returned({})
  ELSE Returned({q[Len(q)] : q \in Children(k, p)})

\* try { stdfs::current_path(path); return true; } catch (...) { return false; }
chdir(k, p) == k[p] = "dir"

(***************************************************************************)
(* The file system module as a state machine.  An exception that leaves a  *)
(* function is not caught by this layer: the program stops (pc "aborted"). *)
(***************************************************************************)
FsCall(fn, p, content) ==
  [fn |-> fn, path |-> p, content |-> content,
   before |-> kind[p], parentBefore |-> KindOf(kind, Parent(p)),
   childrenBefore |-> Cardinality(Children(kind, p)), changed |-> FALSE]

NoCall == [fn |-> "none", path |-> <<>>, content |-> <<>>, before |-> "none",
           parentBefore |-> "dir", childrenBefore |-> 0, changed |-> FALSE]

FsInit ==
  /\ kind = [p \in FsPaths |-> "none"]
  /\ data = [p \in FsPaths |-> <<>>]
  /\ cwd = <<>>
  /\ log = <<>>
  /\ call = NoCall
  /\ ret = Returned(FALSE)
  /\ pc = "run"
  /\ result = <<>> /\ pos = 0 /\ iter = 0
  /\ NoRand

\* the call ends with effect e on the tree
FsDone(c, e) ==
  /\ pc = "run"
  /\ call' = [c EXCEPT !.changed = (e.kind /= kind \/ e.data /= data)]
  /\ kind' = e.kind
  /\ data' = e.data
  /\ ret' = e.ret
  /\ pc' = IF e.ret.thrown THEN "aborted" ELSE "run"
  /\ UNCHANGED <<cwd, log, result, pos, iter, randVars>>

DoWriteFile(p, c) == FsDone(FsCall("writeFile", p, c), writeFile(kind, data, p, c))

DoFileSize(p) == FsDone(FsCall("fileSize", p, <<>>), Effect(kind, data, fileSize(kind, data, p)))

DoMkdir(p) == FsDone(FsCall("mkdir", p, <<>>), mkdir(kind, data, p))

DoMkdirp(p) == FsDone(FsCall("mkdirp", p, <<>>), mkdirp(kind, data, p))

DoRemove(p) == FsDone(FsCall("remove", p, <<>>), remove(kind, data, p))

DoRemoveAll(p) == FsDone(FsCall("removeAll", p, <<>>), removeAll(kind, data, p))

DoListDir(p) == FsDone(FsCall("listDir", p, <<>>), Effect(kind, data, listDir(kind, data, p)))

DoChdir(p) ==
  /\ pc = "run"
  /\ call' = FsCall("chdir", p, <<>>)
  /\ ret' = Returned(chdir(kind, p))
  /\ cwd' = IF chdir(kind, p) THEN p ELSE cwd
  /\ UNCHANGED <<kind, data, log, pc, result, pos, iter, randVars>>

FsNext ==
  \E p \in FsPaths :
    \/ \E c \in FsContents : DoWriteFile(p, c)
    \/ DoFileSize(p)
    \/ DoMkdir(p)
    \/ DoMkdirp(p)
    \/ DoRemove(p)
    \/ DoRemoveAll(p)
    \/ DoListDir(p)
    \/ DoChdir(p)

SpecFs == FsInit /\ [][FsNext]_vars

(***************************************************************************)
(* writeFile, appendFile and readFile alone, on a path that can be created *)
(* and on one whose parent directory is missing.  log[p] is the history of *)
(* the writeFile and appendFile calls on p, each with what it returned.    *)
(***************************************************************************)
\* writeFile and appendFile calls in a run
MaxOps == 3

IoPaths == {<<"a">>, <<"b", "a">>}
IoContents == {<<>>, <<"a">>, <<"b">>, <<"a", "b", "c">>}

RECURSIVE LogLen(_, _)
LogLen(l, S) ==
  IF S = {} THEN 0
  ELSE LET p == CHOOSE x \in S : TRUE IN Len(l[p]) + LogLen(l, S \ {p})

IoInit ==
  /\ kind = [p \in FsPaths |-> "none"]
  /\ data = [p \in FsPaths |-> <<>>]
  /\ cwd = <<>>
  /\ log = [p \in IoPaths |-> <<>>]
  /\ call = NoCall
  /\ ret = Returned(FALSE)
  /\ pc = "run"
  /\ result = <<>> /\ pos = 0 /\ iter = 0
  /\ NoRand

\* a writeFile or appendFile call that ends with effect e
IoDone(c, e) ==
  /\ LogLen(log, IoPaths) < MaxOps
  /\ call' = c
  /\ kind' = e.kind
  /\ data' = e.data
  /\ ret' = e.ret
  /\ log' = [log EXCEPT ![c.path] =
               Append(@, [op |-> c.fn, content |-> c.content, ok |-> e.ret.val])]
  /\ UNCHANGED <<cwd, pc, result, pos, iter, randVars>>

IoWriteFile(p, c) == IoDone(FsCall("writeFile", p, c), writeFile(kind, data, p, c))

IoAppendFile(p, c) == IoDone(FsCall("appendFile", p, c), appendFile(kind, data, p, c))

IoReadFile(p) ==
  /\ call' = FsCall("readFile", p, <<>>)
  /\ ret' \in readFile(kind, data, p)
  /\ UNCHANGED <<kind, data, log, cwd, pc, result, pos, iter, randVars>>

IoNext ==
  \E p \in IoPaths :
    \/ \E c \in IoContents : IoWriteFile(p, c)
    \/ \E c \in IoContents : IoAppendFile(p, c)
    \/ IoReadFile(p)

SpecIo == IoInit /\ [][IoNext]_vars

(***************************************************************************)
(* Properties of the text module, under SpecText                           *)
(***************************************************************************)

\* C1: for every text s and every non-empty delimiter d, joining the parts
\* that split(s, d) returned with d gives s back, and split with a non-empty
\* delimiter returns at least one part.
C1_SplitJoinRoundTrip ==
  /\ (pc = "done" /\ call.fn = "split" /\ call.t /= <<>>) => Len(ret.val) >= 1
  /\ (call.fn = "join" /\ call.t /= <<>> /\ call.u = call.t) => ret.val = call.s

\* s is d twice: it equals, starts with and ends with the delimiter
C1_Witness ==
  /\ call.fn = "join" /\ call.t /= <<>> /\ call.u = call.t
  /\ call.s = call.t \o call.t
  /\ ret.val = call.s

\* C2: indexOf(s, t) and lastIndexOf(s, t) return the negative number -1
\* exactly when contains(s, t) is false, and otherwise a position p in
\* 0..len(s) at which t occurs in s.
C2_SignedSentinel ==
  (pc = "done" /\ call.fn \in {"indexOf", "lastIndexOf"} /\ call.i = 0) =>
    /\ (ret.val = -1) <=> ~contains(call.s, call.t)
    /\ contains(call.s, call.t) =>
         /\ ret.val \in 0..Len(call.s)
         /\ SubSeq(call.s, ret.val + 1, ret.val + Len(call.t)) = call.t

\* the whole of s is an optional sign and one or more digits
WellFormedInt(s) ==
  LET k == IF s /= <<>> /\ s[1] \in {"-", "+"} THEN 2 ELSE 1
  IN /\ k <= Len(s)
     /\ \A n \in k..Len(s) : s[n] \in Digits

WellFormedValue(s) ==
  LET k == IF s[1] \in {"-", "+"} THEN 2 ELSE 1
      mag == DigitsValue(s, k, Len(s) - k + 1, 0)
  IN IF s[1] = "-" THEN -mag ELSE mag

\* C3: toInt(s, d) returns the parsed value when the whole of s is a
\* well-formed integer and the default d for every other s, a valid
\* integer followed by other characters included.
C3_ToIntDefaultOnMalformed ==
  (pc = "done" /\ call.fn = "toInt") =>
    ret.val = (IF WellFormedInt(call.s) THEN WellFormedValue(call.s) ELSE call.i)

Clamp(x, lo, hi) == IF x < lo THEN lo ELSE IF x > hi THEN hi ELSE x

\* the slice of the contract: negative indices count from the end, both
\* bounds are clamped into [0, length]
RefSlice(s, start, end) ==
  LET st == Clamp(IF start < 0 THEN Len(s) + start ELSE start, 0, Len(s))
      en == Clamp(IF end < 0 THEN Len(s) + end ELSE end, 0, Len(s))
  IN IF st >= en THEN <<>> ELSE SubSeq(s, st + 1, en)

\* C4: for every text and every pair of indices, slice raises nothing and
\* returns the reference slice.
C4_SliceReference ==
  (pc = "done" /\ call.fn = "slice") =>
    /\ ~ret.thrown
    /\ ret.val = RefSlice(call.s, call.i, call.j)

\* both indices negative and a non-empty result, as slice("hello", -3, -1)
C4_Witness ==
  /\ pc = "done" /\ call.fn = "slice"
  /\ call.i < 0 /\ call.j < 0 /\ Len(call.s) + call.i > 0
  /\ ret.val /= <<>>

\* C8: replacing an empty search text changes nothing, for replace and for
\* replaceFirst.
C8_EmptySearchNoOp ==
  (pc = "done" /\ call.fn \in {"replace", "replaceFirst"} /\ call.t = <<>>) =>
    ret.val = call.s

\* one scan of the original text from index k (1-based): each occurrence of
\* from met is substituted and the scan resumes after it
RECURSIVE RefReplaceFrom(_, _, _, _)
RefReplaceFrom(s, from, to, k) ==
  IF k > Len(s) THEN <<>>
  ELSE IF k + Len(from) - 1 <= Len(s) /\ \A n \in 1..Len(from) : s[k + n - 1] = from[n]
       THEN to \o RefReplaceFrom(s, from, to, k + Len(from))
       ELSE <<s[k]>> \o RefReplaceFrom(s, from, to, k + 1)

RefReplaceFirst(s, from, to) ==
  LET at == {k \in 1..Len(s) :
               k + Len(from) - 1 <= Len(s) /\ \A n \in 1..Len(from) : s[k + n - 1] = from[n]}
  IN IF at = {} THEN s
     ELSE LET k == CHOOSE x \in at : \A y \in at : x <= y
          IN SubSeq(s, 1, k - 1) \o to \o SubSeq(s, k + Len(from), Len(s))

\* C10: with a non-empty search text, replace ends after at most len(s) loop
\* iterations with the result of one left-to-right scan of the original text
\* (inserted text is not scanned again), and replaceFirst substitutes the
\* leftmost occurrence only, or returns s when there is none.
C10_ReplaceScan ==
  /\ (call.fn = "replace" /\ call.t /= <<>>) =>
       /\ iter <= Len(call.s)
       /\ pc = "done" => ret.val = RefReplaceFrom(call.s, call.t, call.u, 1)
  /\ (pc = "done" /\ call.fn = "replaceFirst" /\ call.t /= <<>>) =>
       ret.val = RefReplaceFirst(call.s, call.t, call.u)

\* replace("aa", "a", "aa") == "aaaa"
C10_Witness ==
  /\ pc = "done" /\ call.fn = "replace"
  /\ call.s = <<"a", "a">> /\ call.t = <<"a">> /\ call.u = <<"a", "a">>
  /\ ret.val = <<"a", "a", "a", "a">>
  /\ iter = 2

(***************************************************************************)
(* Properties of the random stream, under SpecRand                         *)
(***************************************************************************)

\* C5: two runs that called seed with the same value and have since made
\* the same draws with the same arguments in the same order have obtained
\* the same values and hold the same engine state, whatever each run drew
\* before its seed call.
C5_SeedReproducible ==
  (seeded[1].on /\ seeded[2].on /\ seeded[1].v = seeded[2].v) =>
    /\ \A k \in 0..MaxDraws + 1 :
         (k <= Len(draws[1]) /\ k <= Len(draws[2])
            /\ SubSeq(draws[1], 1, k) = SubSeq(draws[2], 1, k))
         => SubSeq(outs[1], 1, k) = SubSeq(outs[2], 1, k)
    /\ draws[1] = draws[2] => eng[1] = eng[2]

\* same seed, the same two draws of different kinds, and only one of the runs
\* drew before it was seeded
C5_Witness ==
  /\ seeded[1].on /\ seeded[2].on /\ seeded[1].v = seeded[2].v
  /\ seeded[1].pre /\ ~seeded[2].pre
  /\ draws[1] = draws[2] /\ Len(draws[1]) = 2
  /\ draws[1][1][1] = "randomInt" /\ draws[1][2][1] = "random"
  /\ outs[1] = outs[2]

(***************************************************************************)
(* Properties of the file system module, under SpecFs                      *)
(***************************************************************************)

\* C6: mkdirp on a path that is already a directory returns true and leaves
\* the file tree as it was.
C6_MkdirpIdempotent ==
  (call.fn = "mkdirp" /\ call.before = "dir") =>
    /\ ~ret.thrown
    /\ ret.val = TRUE
    /\ ~call.changed

\* C7: no operation lets a host failure leave it as an exception: each
\* returns a value, and in particular mkdir with a missing parent and remove
\* on a non-empty directory return false.
C7_NoFaultPropagates ==
  call.fn /= "none" =>
    /\ ~ret.thrown
    /\ (call.fn = "mkdir" /\ call.before = "none" /\ call.parentBefore /= "dir")
         => ret.val = FALSE
    /\ (call.fn = "remove" /\ call.before = "dir" /\ call.childrenBefore > 0)
         => ret.val = FALSE

(***************************************************************************)
(* Properties of whole-file reading and writing, under SpecIo              *)
(***************************************************************************)
\* index of the last successful writeFile of a history, 0 without one
LastWrite(l) ==
  LET w == {n \in 1..Len(l) : l[n].op = "writeFile" /\ l[n].ok}
  IN IF w = {} THEN 0 ELSE CHOOSE n \in w : \A m \in w : m <= n

\* the contents of the successful appendFile calls from index n on, in order
RECURSIVE AppendedFrom(_, _)
AppendedFrom(l, n) ==
  IF n > Len(l) THEN <<>>
  ELSE (IF l[n].op = "appendFile" /\ l[n].ok THEN l[n].content ELSE <<>>)
         \o AppendedFrom(l, n + 1)

RefContent(l) ==
  LET w == LastWrite(l)
  IN (IF w = 0 THEN <<>> ELSE l[w].content) \o AppendedFrom(l, w + 1)

\* C9: after any sequence of writeFile and appendFile calls on p, readFile(p)
\* returns the content of the last successful writeFile followed by the
\* contents of the successful appendFile calls after it, in order; when no
\* call on p succeeded and nothing is there, it returns the absence
\* indicator, not an empty text.
C9_ReadAfterWrites ==
  call.fn = "readFile" =>
    LET l == log[call.path]
    IN IF \E n \in 1..Len(l) : l[n].ok
       THEN ret.val = Some(RefContent(l))
       ELSE ret.val = Nullopt

\* a write, a second write that truncates it, an append, then the read
C9_Witness ==
  /\ call.fn = "readFile"
  /\ LET l == log[call.path]
     IN /\ Len(l) = 3
        /\ l[1].op = "writeFile" /\ l[1].ok /\ l[1].content = <<"a", "b", "c">>
        /\ l[2].op = "writeFile" /\ l[2].ok /\ l[2].content = <<"a">>
        /\ l[3].op = "appendFile" /\ l[3].ok /\ l[3].content = <<"b">>
        /\ ret.val = Some(<<"a", "b">>)

====
